---- MODULE Spec2Model ----
(***************************************************************************)
(* Model of the orders API (main.go) and its redis client (db/redis.go):   *)
(* the main goroutine (startup, wait for signal, shutdown, deferred        *)
(* calls), the listener goroutine started by main, and one goroutine per   *)
(* inbound request running getOrder.                                       *)
(***************************************************************************)
EXTENDS Integers, Sequences, FiniteSets, TLC

\* ------------------------------------------------------------------ bounds
NumReq == 2

Requests == 1..NumReq

\* ------------------------------------------------------- program constants
StatusOK == 200
StatusBadRequest == 400
StatusNotFound == 404
StatusInternalServerError == 500

\* ------------------------------------------------------------ input domains
Keys == {"k1", "k2", "k3"}
Ids == {""} \cup Keys
Values == {"", "w"}

\* the store holds a value under k1, an empty value under k2, nothing under k3
StoreContents == [k \in {"k1", "k2"} |-> IF k = "k1" THEN "w" ELSE ""]

NilErr == "nil"
RedisNil == "redis: nil"
ErrEOF == "EOF"
ErrClosed == "redis: client is closed"
ErrServerClosed == "http: Server closed"
ErrBind == "listen tcp :9911: bind: address already in use"
ErrCloseFailed == "close tcp: connection reset"

RouteSpan == "/order/:id"
MiddlewareSpan == "otelgin"

VARIABLES
    pc,          \* position of main
    exitCode,    \* -1 while the process runs, else the exit code
    ctxDone,     \* the NotifyContext context is cancelled (signal received)
    defers,      \* main's stack of deferred calls
    provider,    \* "none" | "created" | "installed" | "shutdown"
    storeConn,   \* "none" | "open" | "closed"
    pings,       \* number of PING probes sent by NewClient
    route,       \* GET /v1/orders/:id is registered
    lpc,         \* listener goroutine: "none" | "spawned" | "serving" | "returned"
    lerr,        \* error returned by ListenAndServe
    inShutdown,  \* http.Server is shutting down
    store,       \* contents of the key-value store
    req,         \* one record per request
    hist,        \* process-level events in the order they happened
    atSignal,    \* the requests in flight when the signal arrived and not yet finished
    servingAtSignal, \* the listener was serving when the signal arrived
    closeErr     \* what redisClient.Close returned inside Client.Close

vars == <<pc, exitCode, ctxDone, defers, provider, storeConn, pings, route,
          lpc, lerr, inShutdown, store, req, hist, atSignal, servingAtSignal,
          closeErr>>

mainVars == <<pc, exitCode, ctxDone, defers, provider, storeConn, pings, route,
              lpc, lerr, inShutdown, hist, servingAtSignal, closeErr>>

\* -------------------------------------------------------------- helpers
Ev(e, a) == [e |-> e, a |-> a]

Names(t) == {t[i].e : i \in 1..Len(t)}

Count(t, e) == Cardinality({i \in 1..Len(t) : t[i].e = e})

\* index of the first event named e, 0 when there is none
Idx(t, e) == IF e \in Names(t)
             THEN CHOOSE i \in 1..Len(t) : t[i].e = e /\ \A j \in 1..(i-1) : t[j].e # e
             ELSE 0

HIdx(e) == IF \E i \in 1..Len(hist) : hist[i] = e
           THEN CHOOSE i \in 1..Len(hist) : hist[i] = e /\ \A j \in 1..(i-1) : hist[j] # e
           ELSE 0

Happened(e) == HIdx(e) > 0

HCount(e) == Cardinality({i \in 1..Len(hist) : hist[i] = e})

Running == exitCode = -1

NewReq == [phase |-> "new", id |-> "", order |-> "", err |-> NilErr,
           status |-> 0, body |-> {}, trace |-> <<>>]

\* ------------------------------------------------------------------ Init
Init ==
    /\ pc = "start"
    /\ exitCode = -1
    /\ ctxDone = FALSE
    /\ defers = <<>>
    /\ provider = "none"
    /\ storeConn = "none"
    /\ pings = 0
    /\ route = FALSE
    /\ lpc = "none"
    /\ lerr = NilErr
    /\ inShutdown = FALSE
    /\ store = StoreContents
    /\ req = [r \in Requests |-> NewReq]
    /\ hist = <<>>
    /\ atSignal = {}
    /\ servingAtSignal = FALSE
    /\ closeErr = NilErr


\* --------------------------------------------------- db.Client (redis.go)
\* The result of redisClient.Get(ctx, id).Result(): the stored value, the
\* not-found error for an absent key, or a transport error with any value.
RedisResults(id) ==
    IF storeConn = "closed"
    THEN {<<"", ErrClosed>>}
    ELSE (IF id \in DOMAIN store
          THEN {<<store[id], NilErr>>}
          ELSE {<<"", RedisNil>>})
         \cup {<<v, ErrEOF>> : v \in Values}

\* The span a context carries: the context returned by tracer.Start carries
\* the request span, the bare request context the middleware's span.
SpanCtx == "ctx"
RequestCtx == "c.Request.Context()"

SpanIn(ctx) == IF ctx = SpanCtx THEN RouteSpan ELSE MiddlewareSpan

\* Contexts and what each is derived from: main's context comes from
\* signal.NotifyContext(context.Background()); a request's context comes from
\* the http.Server, which is built without a base context; tracer.Start
\* derives the span-bearing context from the request's.
BackgroundCtx == "context.Background()"
MainCtx == "signal.NotifyContext"

ParentCtx(ctx) == IF ctx = SpanCtx THEN RequestCtx ELSE BackgroundCtx

DerivesFrom(ctx, anc) ==
    \/ ctx = anc
    \/ ParentCtx(ctx) = anc
    \/ ParentCtx(ParentCtx(ctx)) = anc

\* the signal cancels main's context and every context derived from it
CancelledBySignal(ctx) == ctxDone /\ DerivesFrom(ctx, MainCtx)

\* Client.Get up to the blocking lookup: the child span is started.
GetEntry(ctx, id) ==
    <<Ev("dbSpanStart", SpanIn(ctx)), Ev("redisGet", id)>>

GetExitNoEnd(v, e) ==
    <<Ev("getReturn", e)>>

\* Client.Get after the lookup: the deferred span.End runs, then Get returns.
GetExit(v, e) ==
    <<Ev("dbSpanEnd", "get"), Ev("getReturn", e)>>

\* ------------------------------------------------------ getOrder (main.go)
IdIsEmptyNever(id) == FALSE

IdIsEmpty(id) == id = ""

\* the context getOrder hands to rc.Get
LookupCtx == SpanCtx

IsBackendErrorNoCheck(err) == FALSE

IsBackendError(err) == err # NilErr /\ err # RedisNil

IsNotFoundErrOnly(order, err) == err = RedisNil

IsNotFound(order, err) == order = "" \/ err = RedisNil

OKBodyOfId(id, order) == {<<"order", id>>}

\* gin.H{"order": order}
OKBody(id, order) == {<<"order", order>>}

HandleErrorResponseTwice(statusCode, err) ==
    <<Ev("recordError", err), Ev("setStatus", err),
      Ev("recordError", err), Ev("setStatus", err), Ev("writeResponse", "abort")>>

HandleErrorResponseAbortFirst(statusCode, err) ==
    <<Ev("writeResponse", "abort"), Ev("recordError", err), Ev("setStatus", err)>>

\* span.RecordError, span.SetStatus, then c.AbortWithError
HandleErrorResponse(statusCode, err) ==
    <<Ev("recordError", err), Ev("setStatus", err), Ev("writeResponse", "abort")>>

SpanEndFirst(events) ==
    <<Ev("spanEnd", RouteSpan)>> \o events \o <<Ev("handlerReturn", "")>>

\* every return of getOrder runs the deferred span.End after what the path did
HandlerExit(events) ==
    events \o <<Ev("spanEnd", RouteSpan), Ev("handlerReturn", "")>>

ClassifyNoReturn(id, order, err) ==
    LET first == IF IsBackendError(err)
                 THEN HandleErrorResponse(StatusInternalServerError, err)
                 ELSE <<>> IN
    IF IsNotFound(order, err)
    THEN [status |-> StatusNotFound, body |-> {},
          events |-> first \o HandleErrorResponse(StatusNotFound, "order not found")]
    ELSE [status |-> StatusOK, body |-> OKBody(id, order),
          events |-> first \o <<Ev("writeResponse", "json")>>]

\* The response getOrder decides on for a lookup result.
Classify(id, order, err) ==
    IF IsBackendError(err)
    THEN [status |-> StatusInternalServerError, body |-> {},
          events |-> HandleErrorResponse(StatusInternalServerError, err)]
    ELSE IF IsNotFound(order, err)
    THEN [status |-> StatusNotFound, body |-> {},
          events |-> HandleErrorResponse(StatusNotFound, "order not found")]
    ELSE [status |-> StatusOK, body |-> OKBody(id, order),
          events |-> <<Ev("writeResponse", "json")>>]

\* After the handler returned the server finishes the request (the response
\* is flushed) and the connection becomes idle.
FinishRequest == <<Ev("finishRequest", "")>>

\* Requests are numbered in their order of arrival.
Arrives(r) == req[r].phase = "new" /\ \A q \in 1..(r - 1) : req[q].phase # "new"

\* A request reaches getOrder: the handler runs up to its first blocking
\* point (the store lookup) or, for an empty id, to its return.
HandleBegin(r) ==
    /\ Running
    /\ lpc = "serving"
    /\ ~inShutdown
    /\ route
    /\ Arrives(r)
    /\ \E id \in Ids :
        LET start == <<Ev("spanStart", RouteSpan)>> IN
        IF IdIsEmpty(id)
        THEN req' = [req EXCEPT ![r] =
                 [@ EXCEPT !.phase = "done", !.id = id,
                           !.status = StatusBadRequest,
                           !.trace = start
                               \o HandlerExit(<<Ev("recordError", "id is empty"),
                                                Ev("setStatus", "id is empty"),
                                                Ev("writeResponse", "abort")>>)
                               \o FinishRequest]]
        ELSE req' = [req EXCEPT ![r] =
                 [@ EXCEPT !.phase = "inGet", !.id = id,
                           !.trace = start \o <<Ev("setAttr", id)>>
                                     \o GetEntry(LookupCtx, id)]]
    /\ UNCHANGED <<mainVars, store, atSignal>>

GetReturnDel(r) ==
    /\ Running
    /\ req[r].phase = "inGet"
    /\ \E res \in RedisResults(req[r].id) :
        LET c == Classify(req[r].id, res[1], res[2]) IN
        req' = [req EXCEPT ![r] =
            [@ EXCEPT !.phase = "done", !.order = res[1], !.err = res[2],
                      !.status = c.status, !.body = c.body,
                      !.trace = @ \o GetExit(res[1], res[2])
                                  \o HandlerExit(c.events) \o FinishRequest]]
    /\ store' = [k \in DOMAIN store \ {req[r].id} |-> store[k]]
    /\ atSignal' = atSignal \ {r}
    /\ UNCHANGED mainVars

\* The store lookup returns; Client.Get returns, the handler classifies the
\* result, writes the response and returns.
GetReturn(r) ==
    /\ Running
    /\ req[r].phase = "inGet"
    /\ \E res \in RedisResults(req[r].id) :
        LET c == Classify(req[r].id, res[1], res[2]) IN
        req' = [req EXCEPT ![r] =
            [@ EXCEPT !.phase = "done", !.order = res[1], !.err = res[2],
                      !.status = c.status, !.body = c.body,
                      !.trace = @ \o GetExit(res[1], res[2])
                                  \o HandlerExit(c.events) \o FinishRequest]]
    /\ atSignal' = atSignal \ {r}
    /\ UNCHANGED <<mainVars, store>>

\* ------------------------------------------------------------ main (main.go)
Fatal(event) ==
    /\ exitCode' = 1
    /\ hist' = hist \o <<event, "exit">>

\* signal.NotifyContext and the deferred cancel
NotifyContext ==
    /\ Running /\ pc = "start"
    /\ pc' = "initTrace"
    /\ defers' = defers \o <<"cancel">>
    /\ UNCHANGED <<exitCode, ctxDone, provider, storeConn, pings, route, lpc,
                   lerr, inShutdown, store, req, hist,
                   atSignal, servingAtSignal, closeErr>>

\* SIGTERM or SIGINT is delivered: the context main waits on is cancelled.
Signal ==
    /\ Running /\ pc # "start" /\ ~ctxDone
    /\ ctxDone' = TRUE
    /\ atSignal' = {r \in Requests : req[r].phase = "inGet"}
    /\ servingAtSignal' = (lpc = "serving")
    /\ UNCHANGED <<pc, exitCode, defers, provider, storeConn, pings, route,
                   lpc, lerr, inShutdown, store, req, hist, closeErr>>

InitTraceOK ==
    /\ Running /\ pc = "initTrace"
    /\ provider' = "created"
    /\ pc' = "setProvider"
    /\ hist' = hist \o <<"initTraceProvider">>
    /\ UNCHANGED <<exitCode, ctxDone, defers, storeConn, pings, route, lpc,
                   lerr, inShutdown, store, req,
                   atSignal, servingAtSignal, closeErr>>

\* initTraceProvider returns an error: log.Fatal
InitTraceFail ==
    /\ Running /\ pc = "initTrace"
    /\ Fatal("initTraceProvider failed")
    /\ UNCHANGED <<pc, ctxDone, defers, provider, storeConn, pings, route,
                   lpc, lerr, inShutdown, store, req,
                   atSignal, servingAtSignal, closeErr>>

\* otel.SetTracerProvider and the deferred traceProvider.Shutdown
SetTracerProvider ==
    /\ Running /\ pc = "setProvider"
    /\ provider' = "installed"
    /\ defers' = defers \o <<"traceProvider.Shutdown">>
    /\ pc' = "newClient"
    /\ hist' = hist \o <<"setTracerProvider">>
    /\ UNCHANGED <<exitCode, ctxDone, storeConn, pings, route, lpc, lerr,
                   inShutdown, store, req,
                   atSignal, servingAtSignal, closeErr>>

NewClientOKSet ==
    /\ Running /\ pc = "newClient"
    /\ ~ctxDone
    /\ pings' = pings + 1
    /\ storeConn' = "open"
    /\ store' = [k \in DOMAIN store \cup {"k3"} |-> IF k = "k3" THEN "w" ELSE store[k]]
    /\ pc' = "route"
    /\ hist' = hist \o <<"ping", "newClient">>
    /\ UNCHANGED <<exitCode, ctxDone, defers, provider, route, lpc, lerr,
                   inShutdown, req, atSignal, servingAtSignal, closeErr>>

\* db.NewClient: the PING under main's context succeeds
NewClientOK ==
    /\ Running /\ pc = "newClient"
    /\ ~ctxDone
    /\ pings' = pings + 1
    /\ storeConn' = "open"
    /\ pc' = "route"
    /\ hist' = hist \o <<"ping", "newClient">>
    /\ UNCHANGED <<exitCode, ctxDone, defers, provider, route, lpc, lerr,
                   inShutdown, store, req,
                   atSignal, servingAtSignal, closeErr>>

NewClientFailIgnored ==
    /\ Running /\ pc = "newClient"
    /\ pings' = pings + 1
    /\ pc' = "route"
    /\ hist' = hist \o <<"ping", "newClient failed">>
    /\ UNCHANGED <<exitCode, ctxDone, defers, provider, storeConn, route, lpc,
                   lerr, inShutdown, store, req,
                   atSignal, servingAtSignal, closeErr>>

\* db.NewClient: the PING fails (store unreachable or context cancelled):
\* log.Fatal
NewClientFail ==
    /\ Running /\ pc = "newClient"
    /\ pings' = pings + 1
    /\ exitCode' = 1
    /\ hist' = hist \o <<"ping", "newClient failed", "exit">>
    /\ UNCHANGED <<pc, ctxDone, defers, provider, storeConn, route, lpc, lerr,
                   inShutdown, store, req,
                   atSignal, servingAtSignal, closeErr>>

\* the deferred c.Close, newRouter and v1.GET
RegisterRoute ==
    /\ Running /\ pc = "route"
    /\ defers' = defers \o <<"c.Close">>
    /\ route' = TRUE
    /\ pc' = "spawn"
    /\ hist' = hist \o <<"route">>
    /\ UNCHANGED <<exitCode, ctxDone, provider, storeConn, pings, lpc, lerr,
                   inShutdown, store, req,
                   atSignal, servingAtSignal, closeErr>>

\* go func() { ListenAndServe ... }()
SpawnListener ==
    /\ Running /\ pc = "spawn"
    /\ lpc' = "spawned"
    /\ pc' = "wait"
    /\ hist' = hist \o <<"go">>
    /\ UNCHANGED <<exitCode, ctxDone, defers, provider, storeConn, pings,
                   route, lerr, inShutdown, store, req,
                   atSignal, servingAtSignal, closeErr>>

AwaitSignalNoWait ==
    /\ Running /\ pc = "wait"
    /\ pc' = "shutdown"
    /\ UNCHANGED <<exitCode, ctxDone, defers, provider, storeConn, pings,
                   route, lpc, lerr, inShutdown, store, req, hist,
                   atSignal, servingAtSignal, closeErr>>

\* <-ctx.Done()
AwaitSignal ==
    /\ Running /\ pc = "wait"
    /\ ctxDone
    /\ pc' = "shutdown"
    /\ UNCHANGED <<exitCode, ctxDone, defers, provider, storeConn, pings,
                   route, lpc, lerr, inShutdown, store, req, hist,
                   atSignal, servingAtSignal, closeErr>>

\* s.Shutdown(context.Background()) begins: the listener is closed
ShutdownBegin ==
    /\ Running /\ pc = "shutdown"
    /\ inShutdown' = TRUE
    /\ pc' = "draining"
    /\ hist' = hist \o <<"shutdownBegin">>
    /\ UNCHANGED <<exitCode, ctxDone, defers, provider, storeConn, pings,
                   route, lpc, lerr, store, req,
                   atSignal, servingAtSignal, closeErr>>

Idle(r) == req[r].phase # "inGet"

DrainedAlways == TRUE

\* what Shutdown waits for under context.Background(): every connection idle
Drained == \A r \in Requests : Idle(r)

\* s.Shutdown returns
ShutdownReturn ==
    /\ Running /\ pc = "draining"
    /\ Drained
    /\ pc' = "return"
    /\ hist' = hist \o <<"shutdownDone">>
    /\ UNCHANGED <<exitCode, ctxDone, defers, provider, storeConn, pings,
                   route, lpc, lerr, inShutdown, store, req,
                   atSignal, servingAtSignal, closeErr>>

\* Client.Close calls redisClient.Close and has no result: what it hands to
\* its caller of the error e is nothing.
ClientClose(e) == <<>>

NextDeferredFIFO(stack) == 1

\* deferred calls run last in, first out
NextDeferred(stack) == Len(stack)

\* main returns: one deferred call runs
RunDeferred ==
    /\ Running /\ pc = "return"
    /\ defers # <<>>
    /\ LET i == NextDeferred(defers)
           d == defers[i] IN
        /\ defers' = SubSeq(defers, 1, i - 1) \o SubSeq(defers, i + 1, Len(defers))
        /\ \E e \in (IF d = "c.Close" THEN {NilErr, ErrCloseFailed} ELSE {closeErr}) :
            /\ closeErr' = e
            /\ hist' = hist \o <<d>>
                        \o (IF d = "c.Close" THEN ClientClose(e) ELSE <<>>)
        /\ storeConn' = IF d = "c.Close" THEN "closed" ELSE storeConn
        /\ provider' = IF d = "traceProvider.Shutdown" THEN "shutdown" ELSE provider
    /\ UNCHANGED <<pc, exitCode, ctxDone, pings, route, lpc, lerr, inShutdown,
                   store, req,
                   atSignal, servingAtSignal>>

\* main has returned and its deferred calls have run: the process exits 0
MainExit ==
    /\ Running /\ pc = "return"
    /\ defers = <<>>
    /\ exitCode' = 0
    /\ hist' = hist \o <<"exit">>
    /\ UNCHANGED <<pc, ctxDone, defers, provider, storeConn, pings, route,
                   lpc, lerr, inShutdown, store, req,
                   atSignal, servingAtSignal, closeErr>>

\* ---------------------------------------------- listener goroutine (main.go)
\* ListenAndServe binds the address and serves
ListenOK ==
    /\ Running /\ lpc = "spawned"
    /\ ~inShutdown
    /\ lpc' = "serving"
    /\ hist' = hist \o <<"listen">>
    /\ UNCHANGED <<pc, exitCode, ctxDone, defers, provider, storeConn, pings,
                   route, lerr, inShutdown, store, req,
                   atSignal, servingAtSignal, closeErr>>

\* ListenAndServe cannot bind the address and returns the error
ListenFail ==
    /\ Running /\ lpc = "spawned"
    /\ ~inShutdown
    /\ lpc' = "returned"
    /\ lerr' = ErrBind
    /\ UNCHANGED <<pc, exitCode, ctxDone, defers, provider, storeConn, pings,
                   route, inShutdown, store, req, hist,
                   atSignal, servingAtSignal, closeErr>>

\* Shutdown was called: ListenAndServe returns ErrServerClosed at once
ListenClosed ==
    /\ Running /\ lpc \in {"spawned", "serving"}
    /\ inShutdown
    /\ lpc' = "returned"
    /\ lerr' = ErrServerClosed
    /\ UNCHANGED <<pc, exitCode, ctxDone, defers, provider, storeConn, pings,
                   route, inShutdown, store, req, hist,
                   atSignal, servingAtSignal, closeErr>>

ListenerLogOnly ==
    /\ Running /\ lpc = "returned"
    /\ lerr # NilErr
    /\ lpc' = "ended"
    /\ hist' = hist \o <<lerr>>
    /\ UNCHANGED <<pc, exitCode, ctxDone, defers, provider, storeConn, pings,
                   route, lerr, inShutdown, store, req,
                   atSignal, servingAtSignal, closeErr>>

\* if err := s.ListenAndServe(); err != nil { log.Fatal(err) }
ListenerFatal ==
    /\ Running /\ lpc = "returned"
    /\ lerr # NilErr
    /\ Fatal(lerr)
    /\ UNCHANGED <<pc, ctxDone, defers, provider, storeConn, pings, route,
                   lpc, lerr, inShutdown, store, req,
                   atSignal, servingAtSignal, closeErr>>

\* ------------------------------------------------------------------ Next
Next ==
    \/ NotifyContext
    \/ Signal
    \/ InitTraceOK
    \/ InitTraceFail
    \/ SetTracerProvider
    \/ NewClientOK
    \/ NewClientFail
    \/ RegisterRoute
    \/ SpawnListener
    \/ AwaitSignal
    \/ ShutdownBegin
    \/ ShutdownReturn
    \/ RunDeferred
    \/ MainExit
    \/ ListenOK
    \/ ListenFail
    \/ ListenClosed
    \/ ListenerFatal
    \/ \E r \in Requests : HandleBegin(r)
    \/ \E r \in Requests : GetReturn(r)

Spec == Init /\ [][Next]_vars


\* ================================================================ claims
Finished(r) == req[r].phase = "done"

Recorded(t) == {t[i].a : i \in {j \in 1..Len(t) : t[j].e = "recordError"}}

\* C1: a request with a non-empty id whose lookup returned a non-empty value
\* and no error is answered 200 with a body whose single field "order" is
\* exactly the returned value.
C1_FoundIsOK ==
    \A r \in Requests :
        (Finished(r) /\ req[r].id # "" /\ req[r].err = NilErr /\ req[r].order # "")
        => /\ req[r].status = StatusOK
           /\ req[r].body = {<<"order", req[r].order>>}

C1_Witness ==
    \E r \in Requests :
        /\ Finished(r) /\ req[r].id \in Keys /\ req[r].err = NilErr
        /\ req[r].order = "w" /\ req[r].status = StatusOK

\* C2: a request with an empty id is answered 400 and never reaches the
\* store: no lookup is issued and no store-call span is started for it.
C2_EmptyIdIs400 ==
    \A r \in Requests :
        (req[r].phase # "new" /\ req[r].id = "")
        => /\ Finished(r)
           /\ req[r].status = StatusBadRequest
           /\ Count(req[r].trace, "redisGet") = 0
           /\ Count(req[r].trace, "dbSpanStart") = 0

C2_Witness ==
    \E r \in Requests :
        Finished(r) /\ req[r].id = "" /\ req[r].status = StatusBadRequest

NotFoundCase(r) ==
    /\ Finished(r) /\ req[r].id # ""
    /\ \/ req[r].err = RedisNil
       \/ req[r].err = NilErr /\ req[r].order = ""

\* C3: a lookup that returns the not-found error, or no error and an empty
\* value, is answered 404, and the two cases give the same response.
C3_NotFoundIs404 ==
    /\ \A r \in Requests :
        NotFoundCase(r) => req[r].status = StatusNotFound /\ req[r].body = {}
    /\ \A r1, r2 \in Requests :
        (NotFoundCase(r1) /\ NotFoundCase(r2))
        => /\ req[r1].status = req[r2].status
           /\ req[r1].body = req[r2].body
           /\ Recorded(req[r1].trace) = Recorded(req[r2].trace)

C3_Witness ==
    \E r1, r2 \in Requests :
        /\ NotFoundCase(r1) /\ req[r1].err = RedisNil
        /\ NotFoundCase(r2) /\ req[r2].err = NilErr
        /\ req[r1].status = StatusNotFound /\ req[r2].status = StatusNotFound

\* C4: a lookup that returns an error other than not-found is answered 500
\* whatever value comes with it, and the error recorded on the request span
\* is that store error.
C4_BackendErrorIs500 ==
    \A r \in Requests :
        (Finished(r) /\ req[r].id # "" /\ req[r].err \notin {NilErr, RedisNil})
        => /\ req[r].status = StatusInternalServerError
           /\ Recorded(req[r].trace) = {req[r].err}

C4_Witness ==
    \E r1, r2 \in Requests :
        /\ Finished(r1) /\ req[r1].err = ErrEOF /\ req[r1].order = ""
        /\ Finished(r2) /\ req[r2].err = ErrEOF /\ req[r2].order = "w"
        /\ req[r1].status = StatusInternalServerError
        /\ req[r2].status = StatusInternalServerError

Before(t, a, b) == Idx(t, a) > 0 /\ Idx(t, a) < Idx(t, b)

DbSpanParents(t) == {t[i].a : i \in {j \in 1..Len(t) : t[j].e = "dbSpanStart"}}

\* C5: when getOrder has returned, one request span was started and ended
\* once; unless the id was empty, one store-call span was started under the
\* request span and ended once before Client.Get returned. No span is ended
\* more often than started.
C5_SpansEndOnce ==
    \A r \in Requests :
        LET t == req[r].trace IN
        /\ Count(t, "spanEnd") <= Count(t, "spanStart")
        /\ Count(t, "dbSpanEnd") <= Count(t, "dbSpanStart")
        /\ Finished(r) =>
            /\ Count(t, "spanStart") = 1
            /\ Count(t, "spanEnd") = 1
            /\ Before(t, "spanStart", "spanEnd")
            /\ Before(t, "spanEnd", "handlerReturn")
            /\ req[r].id = "" =>
                Count(t, "dbSpanStart") = 0 /\ Count(t, "dbSpanEnd") = 0
            /\ req[r].id # "" =>
                /\ Count(t, "dbSpanStart") = 1
                /\ Count(t, "dbSpanEnd") = 1
                /\ DbSpanParents(t) = {RouteSpan}
                /\ Before(t, "spanStart", "dbSpanStart")
                /\ Before(t, "dbSpanStart", "dbSpanEnd")
                /\ Before(t, "dbSpanEnd", "getReturn")
                /\ Before(t, "getReturn", "spanEnd")

C5_Witness ==
    \E r1, r2 \in Requests :
        /\ Finished(r1) /\ req[r1].id # "" /\ Count(req[r1].trace, "dbSpanEnd") = 1
        /\ Finished(r2) /\ req[r2].id = "" /\ Count(req[r2].trace, "spanEnd") = 1

\* C6 as stated: in a request, span start, then the store call, then the
\* request span's end, then the writing of the response status and body.
C6_SpanEndsBeforeResponse ==
    \A r \in Requests :
        Finished(r) =>
            LET t == req[r].trace IN
            /\ req[r].id # "" =>
                Before(t, "spanStart", "redisGet") /\ Before(t, "redisGet", "spanEnd")
            /\ Before(t, "spanStart", "spanEnd")
            /\ Before(t, "spanEnd", "writeResponse")

\* C6 amended: in a request, span start, then the store call, then the
\* writing of the response status and body, then the request span's end,
\* then the handler's return, then the server finishing the request.
C6_ResponseThenSpanEnd ==
    \A r \in Requests :
        Finished(r) =>
            LET t == req[r].trace IN
            /\ req[r].id # "" =>
                Before(t, "spanStart", "redisGet") /\ Before(t, "redisGet", "writeResponse")
            /\ Before(t, "spanStart", "writeResponse")
            /\ Before(t, "writeResponse", "spanEnd")
            /\ Before(t, "spanEnd", "handlerReturn")
            /\ Before(t, "handlerReturn", "finishRequest")

C6_Witness ==
    \E r1, r2 \in Requests :
        /\ req[r1].phase = "done" /\ req[r1].status = StatusOK
        /\ req[r2].phase = "done" /\ req[r2].status = StatusNotFound

HBefore(a, b) == HIdx(a) > 0 /\ HIdx(a) < HIdx(b)

\* C7: the store connection is closed only after the signal was received and
\* Shutdown has returned with every request drained, and the tracing pipeline
\* is shut down only after the store connection was closed.
C7_ShutdownOrder ==
    /\ inShutdown => ctxDone /\ Happened("shutdownBegin")
    /\ Happened("shutdownDone") => HBefore("shutdownBegin", "shutdownDone")
    /\ Happened("c.Close") => HBefore("shutdownDone", "c.Close")
    /\ Happened("traceProvider.Shutdown") => HBefore("c.Close", "traceProvider.Shutdown")
    /\ storeConn = "closed" => inShutdown /\ \A r \in Requests : Idle(r)
    /\ provider = "shutdown" => storeConn = "closed"

C7_Witness ==
    /\ exitCode = 0
    /\ storeConn = "closed"
    /\ provider = "shutdown"
    /\ \E r \in Requests : req[r].phase = "done"

\* C8: once the listener was serving and the signal was received, the process
\* exits only with code 0 and only after the store connection was closed and
\* the tracing pipeline shut down.
C8_CleanExit ==
    (~Running /\ ctxDone /\ servingAtSignal)
    => /\ exitCode = 0
       /\ storeConn = "closed"
       /\ provider = "shutdown"

\* C9: the process does not exit while a request that was in flight when the
\* signal arrived has not returned and had its response finished.
C9_NoExitBeforeDrain ==
    ~Running => atSignal = {}

\* C10: the tracing pipeline is initialised and installed, then the store
\* client is constructed with one ping, then the route is registered, then
\* the listener starts; when tracing initialisation or store construction
\* fails the process has exited non-zero, never listened, served nothing and
\* pinged at most once.
C10_StartupOrder ==
    /\ Happened("setTracerProvider") => HBefore("initTraceProvider", "setTracerProvider")
    /\ Happened("ping") => HBefore("setTracerProvider", "ping")
    /\ Happened("newClient") => HBefore("ping", "newClient")
    /\ Happened("route") => HBefore("newClient", "route")
    /\ Happened("go") => HBefore("route", "go")
    /\ Happened("listen") => HBefore("go", "listen") /\ route /\ provider # "none"
    /\ \A r \in Requests : req[r].phase # "new" => Happened("listen")
    /\ pings <= 1 /\ HCount("ping") = pings
    /\ (Happened("initTraceProvider failed") \/ Happened("newClient failed"))
        => /\ exitCode = 1
           /\ ~Happened("go") /\ ~Happened("listen") /\ lpc = "none"
           /\ \A r \in Requests : req[r].phase = "new"

C10_Witness ==
    /\ Happened("newClient failed")
    /\ provider = "installed"
    /\ exitCode = 1


\* C11: when the process has shut down cleanly and closing the store connection
\* failed, the listener shutdown was attempted and the close failure was
\* surfaced (it is among what the process reported).
C11_CloseErrorSurfaced ==
    (exitCode = 0 /\ closeErr # NilErr)
    => /\ Happened("shutdownBegin")
       /\ Happened(closeErr)


\* C12: once the signal was received, the context every in-flight store
\* lookup runs under is cancelled (so the lookup returns instead of blocking).
C12_LookupCtxCancelled ==
    \A r \in Requests :
        (req[r].phase = "inGet" /\ ctxDone) => CancelledBySignal(LookupCtx)


SameId(r1, r2) == Finished(r1) /\ Finished(r2) /\ req[r1].id = req[r2].id

BackendFailed(r) == req[r].err \notin {NilErr, RedisNil}

C14_StoreUnchanged == store = StoreContents

C14_Witness ==
    /\ exitCode = 0
    /\ pings = 1
    /\ \A r \in Requests : Finished(r) /\ req[r].id \in Keys
    /\ store = StoreContents


ErrorStatuses == {StatusBadRequest, StatusNotFound, StatusInternalServerError}

Args(t, e) == {t[i].a : i \in {j \in 1..Len(t) : t[j].e = e}}

\* C15: no request span carries more than one recorded error or has its
\* error status set more than once, and the span of a request answered 200
\* carries none.
C15_AtMostOneError ==
    \A r \in Requests :
        LET t == req[r].trace IN
        /\ Count(t, "recordError") <= 1
        /\ Count(t, "setStatus") <= 1
        /\ (Finished(r) /\ req[r].status = StatusOK)
            => Count(t, "recordError") = 0 /\ Count(t, "setStatus") = 0

C15_Witness ==
    \E r1, r2 \in Requests :
        /\ Finished(r1) /\ req[r1].status = StatusOK
        /\ Count(req[r1].trace, "recordError") = 0
        /\ Finished(r2) /\ req[r2].status = StatusInternalServerError
        /\ Count(req[r2].trace, "recordError") = 1

\* the message getOrder reports for each failing status
ExpectedError(r) ==
    IF req[r].status = StatusBadRequest THEN "id is empty"
    ELSE IF req[r].status = StatusNotFound THEN "order not found"
    ELSE req[r].err

\* C16: a response with status 400, 404 or 500 was written only after the
\* error was recorded on the request span and the span's error status was
\* set, both with the error's message.
C16_ErrorRecordedBeforeStatus ==
    \A r \in Requests :
        req[r].status \in ErrorStatuses =>
            LET t == req[r].trace IN
            /\ Before(t, "recordError", "writeResponse")
            /\ Before(t, "setStatus", "writeResponse")
            /\ Before(t, "spanStart", "recordError")
            /\ Args(t, "recordError") = {ExpectedError(r)}
            /\ Args(t, "setStatus") = {ExpectedError(r)}

C16_Witness ==
    \E r1, r2 \in Requests :
        /\ Finished(r1) /\ req[r1].status = StatusBadRequest
        /\ Finished(r2) /\ req[r2].status = StatusNotFound
        /\ Args(req[r2].trace, "setStatus") = {"order not found"}


\* C17: Client.Close is called at most once, and only after the signal was
\* received and main stopped waiting for it; the connection is not closed
\* during startup or while main waits.
C17_CloseOnceAfterSignal ==
    /\ HCount("c.Close") <= 1
    /\ Happened("c.Close") => ctxDone /\ pc = "return"
    /\ (storeConn = "closed") = Happened("c.Close")
    /\ pc \notin {"return"} => storeConn # "closed"

C17_Witness ==
    /\ Running
    /\ HCount("c.Close") = 1
    /\ storeConn = "closed"
    /\ ctxDone

\* C18: once the store connection is closed no store lookup is in progress,
\* and no lookup ever ran on a closed connection.
C18_NoLookupAfterClose ==
    /\ storeConn = "closed" => \A r \in Requests : req[r].phase # "inGet"
    /\ \A r \in Requests : req[r].err # ErrClosed

C18_Witness ==
    /\ Running
    /\ storeConn = "closed"
    /\ \A r \in Requests : Finished(r) /\ Count(req[r].trace, "redisGet") = 1

AllErrs == {NilErr, RedisNil, ErrEOF, ErrClosed}

\* C19: a request that has finished was written exactly one response, with
\* status 200, 400, 404 or 500, 400 exactly for the empty id; a request still
\* in its lookup has none; and for every id, value and error the decision
\* yields exactly one response with one of 200, 404, 500.
C19_ExactlyOneResponse ==
    /\ \A r \in Requests :
        /\ Finished(r) =>
            /\ Count(req[r].trace, "writeResponse") = 1
            /\ req[r].status \in {StatusOK} \cup ErrorStatuses
            /\ (req[r].status = StatusBadRequest) = (req[r].id = "")
        /\ ~Finished(r) =>
            Count(req[r].trace, "writeResponse") = 0 /\ req[r].status = 0
    /\ \A id \in Keys, v \in Values, e \in AllErrs :
        LET c == Classify(id, v, e) IN
        /\ Count(c.events, "writeResponse") = 1
        /\ c.status \in {StatusOK, StatusNotFound, StatusInternalServerError}

C19_Witness ==
    \E r1, r2 \in Requests :
        /\ Finished(r1) /\ req[r1].status = StatusBadRequest
        /\ Finished(r2) /\ req[r2].status = StatusInternalServerError
        /\ Count(req[r1].trace, "writeResponse") = 1
        /\ Count(req[r2].trace, "writeResponse") = 1

====
